---- MODULE Spec2Model ----
(***************************************************************************)
(* Fleetworthy sales API: the Topic Gate, the research orchestrator        *)
(* (generate_ai_response_async), the research agents with their fallback   *)
(* responder, the /api/chat handler that drives them, and the knowledge    *)
(* base's retrieval and augmentation.                                      *)
(*                                                                         *)
(* Text is a sequence of atoms.  A one-character atom is a character of    *)
(* user input; a longer atom is a fixed piece of a template literal of the *)
(* source, or a run of characters of a stored chunk.  Concatenation is \o, *)
(* so f-string interpolation is the concatenation of the literal pieces    *)
(* and the interpolated values; the length of a text is the sum of the     *)
(* lengths of its atoms.                                                   *)
(***************************************************************************)
EXTENDS Integers, Sequences, FiniteSets, TLC

(***************************************************************************)
(* Bounds of the model.                                                    *)
(***************************************************************************)
\* longest question enumerated over GateAlphabet for the Topic Gate
MaxQuestionLen == 5
\* number of direct Fallback Responder calls kept in the call history
MaxCalls == 2
\* last clock second of the upload timestamps
MaxClock == 1

(***************************************************************************)
(* Strings.                                                                *)
(***************************************************************************)
UpperChars == <<"A","B","C","D","E","F","G","H","I","J","K","L","M",
                "N","O","P","Q","R","S","T","U","V","W","X","Y","Z">>
LowerChars == <<"a","b","c","d","e","f","g","h","i","j","k","l","m",
                "n","o","p","q","r","s","t","u","v","w","x","y","z">>

\* one character of str.lower()
LowerChar(c) ==
    IF \E i \in 1..Len(UpperChars) : UpperChars[i] = c
    THEN LowerChars[CHOOSE i \in 1..Len(UpperChars) : UpperChars[i] = c]
    ELSE c

\* str.lower()
lower(s) == [i \in 1..Len(s) |-> LowerChar(s[i])]

\* the atoms str.strip() removes: whitespace characters, and the pieces of a
\* template literal that hold whitespace only
Whitespace == {" ", "\n", "\t", "\n        "}

RECURSIVE lstrip(_)
lstrip(s) == IF s # <<>> /\ Head(s) \in Whitespace THEN lstrip(Tail(s)) ELSE s

RECURSIVE rstrip(_)
rstrip(s) ==
    IF s # <<>> /\ s[Len(s)] \in Whitespace
    THEN rstrip(SubSeq(s, 1, Len(s) - 1))
    ELSE s

\* str.strip()
strip(s) == rstrip(lstrip(s))

\* str.startswith(prefix)
startswith(s, prefix) ==
    Len(s) >= Len(prefix) /\ SubSeq(s, 1, Len(prefix)) = prefix

\* `k in s` on strings: the search tries every start position from the left
RECURSIVE str_find(_, _, _)
str_find(s, k, i) ==
    IF i + Len(k) - 1 > Len(s) THEN FALSE
    ELSE IF SubSeq(s, i, i + Len(k) - 1) = k THEN TRUE
    ELSE str_find(s, k, i + 1)

str_contains(k, s) == str_find(s, k, 1)

\* bool(x) of a string, list or dict field
truthy(s) == s # <<>>

(***************************************************************************)
(* Topic Gate (app.py).                                                    *)
(***************************************************************************)
fleetworthy_keywords ==
    << <<"f","l","e","e","t">>,
       <<"t","r","u","c","k">>,
       <<"t","r","u","c","k","i","n","g">>,
       <<"t","r","a","n","s","p","o","r","t","a","t","i","o","n">>,
       <<"l","o","g","i","s","t","i","c","s">>,
       <<"d","e","l","i","v","e","r","y">>,
       <<"r","o","u","t","e">>,
       <<"f","u","e","l">>,
       <<"d","r","i","v","e","r">>,
       <<"v","e","h","i","c","l","e">>,
       <<"d","i","s","p","a","t","c","h">>,
       <<"m","a","i","n","t","e","n","a","n","c","e">>,
       <<"t","r","a","c","k","i","n","g">>,
       <<"g","p","s">>,
       <<"s","h","i","p","p","i","n","g">>,
       <<"c","a","r","g","o">>,
       <<"f","r","e","i","g","h","t">>,
       <<"l","o","a","d">>,
       <<"f","l","e","e","t","w","o","r","t","h","y">>,
       <<"c","o","s","t">>,
       <<"e","f","f","i","c","i","e","n","c","y">>,
       <<"o","p","t","i","m","i","z","a","t","i","o","n">>,
       <<"m","a","n","a","g","e","m","e","n","t">>,
       <<"s","a","f","e","t","y">>,
       <<"c","o","m","p","l","i","a","n","c","e">>,
       <<"e","l","d">>,
       <<"h","o","u","r","s"," ","o","f"," ","s","e","r","v","i","c","e">>,
       <<"d","o","t">> >>

\* any(keyword in question_lower for keyword in fleetworthy_keywords):
\* the generator is consumed in list order and stops at the first hit
RECURSIVE any_keyword_in(_, _)
any_keyword_in(question_lower, i) ==
    IF i > Len(fleetworthy_keywords) THEN FALSE
    ELSE IF str_contains(fleetworthy_keywords[i], question_lower) THEN TRUE
    ELSE any_keyword_in(question_lower, i + 1)

\* the gate without the lowercasing step
is_fleetworthy_related_case_sensitive(question) ==
    any_keyword_in(question, 1)

is_fleetworthy_related(question) ==
    LET question_lower == lower(question)
    IN  any_keyword_in(question_lower, 1)

(***************************************************************************)
(* State.                                                                  *)
(***************************************************************************)
VARIABLES
    \* process environment, fixed when the modules are imported
    AGENTS_SDK_AVAILABLE,   \* research_agent.py: the SDK import succeeded
    OPENAI_API_KEY,         \* mcp_config.py: the key is set and non-empty
    BRAVE_API_KEY,          \* mcp_config.py: the key is set and non-empty
    pkg,                    \* which research_agent.py the import binds:
                            \* "agents" or "myagents"
    \* one /api/chat request
    pc,                     \* position of the request
    question, company_website, company_description, file_info,
    research_agent,         \* <<>> (none created) or <<agent object>>
    company_research, question_research,
    company_source, question_source,  \* how each research call ended
    request,                \* the request body being handled
    http,                   \* the response sent, status 0 while none is
    trace,                  \* calls made while handling the request
    uploads,                \* the upload store: set of <<path, body>>
    now,                    \* clock second used for upload timestamps
    \* direct calls of the Topic Gate
    gate_pc, gate_question, gate_result,
    \* direct calls of the Fallback Responder
    fb_calls,               \* history of calls: args and returned text
    \* direct calls of the knowledge base
    kb_call,                \* the last call: arguments, collaborators, outcome
    \* concurrent requests that reach the research agent
    sessions                \* per request: agent, server handles, storage

envVars  == <<AGENTS_SDK_AVAILABLE, OPENAI_API_KEY, BRAVE_API_KEY, pkg>>
reqVars  == <<pc, request, question, company_website, company_description, file_info,
              research_agent, company_research, question_research,
              company_source, question_source, http, trace>>
gateVars == <<gate_pc, gate_question, gate_result>>
vars     == <<envVars, reqVars, uploads, now, gateVars, fb_calls, kb_call, sessions>>

\* no call of the knowledge base has been made
NoKBCall == [method |-> "none"]

\* the requests that may be in flight together
MaxRequests == 2

Requests == 1..MaxRequests

\* a request that has not reached generate_ai_response_async yet
IdleSession ==
    [pc |-> "idle", session_id |-> <<>>, agent |-> <<>>, handles |-> <<>>]

\* no request is in flight; objects and server processes will be numbered
\* from 1; nothing was stored through a memory server
NoSessions ==
    [req |-> [r \in Requests |-> IdleSession], next_id |-> 1, stored |-> {}]

Packages == {"agents", "myagents"}

(***************************************************************************)
(* Fallback Responder: SimpleResearchAgent (research_agent.py).            *)
(***************************************************************************)
\* the indentation that opens and closes the triple-quoted templates of
\* agents/research_agent.py
Indent == "\n        "

SimpleResearchAgent(session_id) ==
    [cls |-> "SimpleResearchAgent", session_id |-> session_id, agent |-> "None"]

\* dict.get(key, '') of the context dict; context is <<>> for None
context_get(context, key) ==
    IF key = "company_website" THEN context[1].company_website
    ELSE context[1].company_description

agents_Simple_research_company(self, website, description) ==
    LET research_summary ==
            <<Indent, "Based on my research of ">> \o website
            \o <<": [Company Analysis] - Website: ">> \o website
            \o <<" - Description: ">>
            \o (IF truthy(description) THEN description
                ELSE <<"No description provided">>)
            \o <<" [Potential Fleetworthy Applications] [Recommended Next Steps] *Note: This is a simplified response. Advanced research capabilities coming soon!*",
                 Indent>>
    IN  strip(research_summary)

agents_Simple_research_question(self, q, context) ==
    LET website == IF truthy(context) THEN context_get(context, "company_website") ELSE <<>>
        description == IF truthy(context) THEN context_get(context, "company_description") ELSE <<>>
        company_info ==
            IF truthy(context) /\ (truthy(website) \/ truthy(description))
            THEN <<"\nCompany context: ">> \o website \o <<" - ">> \o description
            ELSE <<>>
        research_response ==
            <<Indent, "Regarding your question: '">> \o q \o <<"'">>
            \o company_info
            \o <<" [Fleetworthy Solutions] Typical customers see 15-25% reduction in fuel costs [Next Steps] *Note: Advanced web research and personalized recommendations coming soon!*",
                 Indent>>
    IN  strip(research_response)

myagents_Simple_research_company(self, website, description) ==
    LET research_summary ==
            <<"I see you're with ">>
            \o (IF truthy(website) THEN website ELSE <<"your company">>)
            \o <<"! Based on your ">>
            \o (IF truthy(description) THEN description
                ELSE <<"transportation operations">>)
            \o <<", our GPS tracking and route optimization could really help cut fuel costs by about 15-25%. Would you like to see a quick demo of how this works for companies like yours?">>
    IN  strip(research_summary)

myagents_Simple_research_question(self, q, context) ==
    LET website == IF truthy(context) THEN context_get(context, "company_website") ELSE <<>>
        company_info ==
            IF truthy(context) /\ truthy(website)
            THEN <<" for ">> \o website
            ELSE <<>>
        research_response ==
            <<"Great question! For fleet management">> \o company_info
            \o <<", our route optimization and fuel tracking typically help companies save 15-25% on fuel costs [...] would you be interested in a quick demo?">>
    IN  strip(research_response)

\* a responder whose text also carries the agent's session id
Simple_research_company_with_session(p, self, website, description) ==
    <<self.session_id>> \o
    (IF p = "agents"
     THEN agents_Simple_research_company(self, website, description)
     ELSE myagents_Simple_research_company(self, website, description))

Simple_research_company(p, self, website, description) ==
    IF p = "agents"
    THEN agents_Simple_research_company(self, website, description)
    ELSE myagents_Simple_research_company(self, website, description)

Simple_research_question(p, self, q, context) ==
    IF p = "agents"
    THEN agents_Simple_research_question(self, q, context)
    ELSE myagents_Simple_research_question(self, q, context)

(***************************************************************************)
(* MCP configuration (config/mcp_config.py).                               *)
(***************************************************************************)
\* validation that insists on the Brave key only
validate_api_keys_brave_only ==
    IF ~BRAVE_API_KEY THEN "ValueError" ELSE "True"

\* "ValueError" when the function raises, "True" when it returns
validate_api_keys ==
    LET missing_keys ==
            (IF ~BRAVE_API_KEY THEN <<"BRAVE_API_KEY">> ELSE <<>>)
            \o (IF ~OPENAI_API_KEY THEN <<"OPENAI_API_KEY">> ELSE <<>>)
    IN  IF truthy(missing_keys)
           /\ \E i \in 1..Len(missing_keys) : missing_keys[i] = "OPENAI_API_KEY"
        THEN "ValueError"
        ELSE "True"

\* <<>> for None
get_web_search_mcp_params ==
    IF ~BRAVE_API_KEY THEN <<>>
    ELSE <<[command |-> "npx", server |-> "@modelcontextprotocol/server-brave-search",
            storage |-> <<>>]>>

get_fetch_mcp_params ==
    [command |-> "uvx", server |-> "mcp-server-fetch", storage |-> <<>>]

get_memory_mcp_params(session_id) ==
    [command |-> "npx", server |-> "mcp-memory-libsql",
     storage |-> <<"file:./memory/", session_id, ".db">>]

get_filesystem_mcp_params ==
    [command |-> "npx", server |-> "@modelcontextprotocol/server-filesystem",
     storage |-> <<"./uploads", "./memory">>]

\* [raised, params]: raised when validate_api_keys raises ValueError
get_research_mcp_server_params(session_id) ==
    IF validate_api_keys = "ValueError"
    THEN [raised |-> TRUE, params |-> <<>>]
    ELSE [raised |-> FALSE,
          params |-> get_web_search_mcp_params
                     \o <<get_fetch_mcp_params,
                          get_memory_mcp_params(session_id),
                          get_filesystem_mcp_params>>]

(***************************************************************************)
(* Agent Runtime collaborator: what the SDK does during one research call. *)
(* start: entering the MCPServerStdio contexts; run: Runner.run; exit:     *)
(* leaving the AsyncExitStack.  Each either succeeds or raises.            *)
(***************************************************************************)
Separator == "\n\n---\n\n**Additional Company Insights:**\n"

\* texts the language model may return as final_output
AgentTexts ==
    { <<"GPS tracking could cut your fuel costs by 15%">>,
      <<"See below", Separator, "Route optimization saves 20%">>,
      <<>> }

RuntimeBehaviours ==
    { [start |-> "raise", run |-> "raise", exit |-> "raise", final_output |-> <<>>],
      [start |-> "ok", run |-> "raise", exit |-> "ok", final_output |-> <<>>] }
    \cup { [start |-> "ok", run |-> "ok", exit |-> e, final_output |-> t] :
             e \in {"ok", "raise"}, t \in AgentTexts }

(***************************************************************************)
(* MCPResearchAgent (research_agent.py).                                   *)
(***************************************************************************)
MCPResearchAgent(session_id) ==
    [cls |-> "MCPResearchAgent", session_id |-> session_id, agent |-> "None"]

\* the body of the try block of research_company / research_question:
\* [raised, final_output, events, agent]; a "raise" event marks the
\* exception that leaves the block
MCP_try_block(self, rt) ==
    LET cfg == get_research_mcp_server_params(self.session_id)
    IN  IF cfg.raised
        THEN [raised |-> TRUE, final_output |-> <<>>, agent |-> self.agent,
              events |-> <<"get_research_mcp_server_params", "raise">>]
        ELSE IF rt.start = "raise"
        THEN [raised |-> TRUE, final_output |-> <<>>, agent |-> self.agent,
              events |-> <<"get_research_mcp_server_params", "MCPServerStdio",
                           "raise">>]
        ELSE IF rt.run = "raise"
        THEN [raised |-> TRUE, final_output |-> <<>>, agent |-> "FleetResearcher",
              events |-> <<"get_research_mcp_server_params", "MCPServerStdio",
                           "_create_agent", "Runner.run", "raise">>]
        ELSE IF rt.exit = "raise"
        THEN [raised |-> TRUE, final_output |-> rt.final_output,
              agent |-> "FleetResearcher",
              events |-> <<"get_research_mcp_server_params", "MCPServerStdio",
                           "_create_agent", "Runner.run", "AsyncExitStack.exit",
                           "raise">>]
        ELSE [raised |-> FALSE, final_output |-> rt.final_output,
              agent |-> "FleetResearcher",
              events |-> <<"get_research_mcp_server_params", "MCPServerStdio",
                           "_create_agent", "Runner.run", "AsyncExitStack.exit">>]

\* research_company whose except clause re-raises instead of falling back
MCP_research_company_no_fallback(p, self, website, description, rt) ==
    LET r == MCP_try_block(self, rt)
    IN  [raised |-> r.raised, result |-> r.final_output, source |-> "agent",
         agent |-> r.agent, events |-> r.events]

\* [raised, result, source, agent, events]
MCP_research_company(p, self, website, description, rt) ==
    LET r == MCP_try_block(self, rt)
    IN  IF ~r.raised
        THEN [raised |-> FALSE, result |-> r.final_output, source |-> "agent",
              agent |-> r.agent, events |-> r.events]
        ELSE LET simple_agent == SimpleResearchAgent(self.session_id)
             IN  [raised |-> FALSE,
                  result |-> Simple_research_company(p, simple_agent, website, description),
                  source |-> "fallback", agent |-> r.agent,
                  events |-> r.events \o <<"SimpleResearchAgent.research_company">>]

\* research_question whose fallback call leaves the context out
MCP_research_question_fallback_without_context(p, self, q, context, rt) ==
    LET r == MCP_try_block(self, rt)
    IN  IF ~r.raised
        THEN [raised |-> FALSE, result |-> r.final_output, source |-> "agent",
              agent |-> r.agent, events |-> r.events]
        ELSE LET simple_agent == SimpleResearchAgent(self.session_id)
             IN  [raised |-> FALSE,
                  result |-> Simple_research_question(p, simple_agent, q, <<>>),
                  source |-> "fallback", agent |-> r.agent,
                  events |-> r.events \o <<"SimpleResearchAgent.research_question">>]

MCP_research_question(p, self, q, context, rt) ==
    LET r == MCP_try_block(self, rt)
    IN  IF ~r.raised
        THEN [raised |-> FALSE, result |-> r.final_output, source |-> "agent",
              agent |-> r.agent, events |-> r.events]
        ELSE LET simple_agent == SimpleResearchAgent(self.session_id)
             IN  [raised |-> FALSE,
                  result |-> Simple_research_question(p, simple_agent, q, context),
                  source |-> "fallback", agent |-> r.agent,
                  events |-> r.events \o <<"SimpleResearchAgent.research_question">>]

\* a factory that ignores the availability flag
create_research_agent_always_mcp(session_id) ==
    MCPResearchAgent(session_id)

create_research_agent(session_id) ==
    IF AGENTS_SDK_AVAILABLE
    THEN MCPResearchAgent(session_id)
    ELSE SimpleResearchAgent(session_id)

\* research_agent.research_company(...) on whichever class was created
agent_research_company(p, self, website, description, rt) ==
    IF self.cls = "MCPResearchAgent"
    THEN MCP_research_company(p, self, website, description, rt)
    ELSE [raised |-> FALSE,
          result |-> Simple_research_company(p, self, website, description),
          source |-> "simple", agent |-> self.agent, events |-> <<>>]

\* research_agent.research_question(...) on whichever class was created
agent_research_question(p, self, q, context, rt) ==
    IF self.cls = "MCPResearchAgent"
    THEN MCP_research_question(p, self, q, context, rt)
    ELSE [raised |-> FALSE,
          result |-> Simple_research_question(p, self, q, context),
          source |-> "simple", agent |-> self.agent, events |-> <<>>]

(***************************************************************************)
(* /api/chat (app.py): inputs.                                             *)
(***************************************************************************)
UPLOAD_FOLDER == "uploads"
ALLOWED_EXTENSIONS == { <<"t","x","t">>, <<"p","d","f">>, <<"d","o","c">>, <<"d","o","c","x">> }
MAX_CONTENT_LENGTH == 5 * 1024 * 1024

Q_fuel        == <<"f","u","e","l">>
Q_Fuel_padded == <<" ","F","u","e","l"," ">>
Q_hi          == <<"h","i">>
Q_weather     == <<"W","h","a","t","'","s"," ","t","h","e"," ","w","e","a","t","h","e","r","?">>
Q_FUEL_costs  == <<"H","o","w"," ","c","a","n"," ","I"," ","r","e","d","u","c","e"," ","F","U","E","L"," ","c","o","s","t","s","?">>

\* the question field as sent; <<>> also stands for a missing field
RawQuestions == { <<>>, <<" ">>, Q_fuel, Q_Fuel_padded, Q_hi }

W_http  == <<"h","t","t","p",":","/","/","t">>
W_https_padded == <<" ","h","t","t","p","s",":","/","/","t">>
W_bare  == <<"t",".","c","o">>
RawWebsites == { <<>>, W_http, W_https_padded, W_bare }

D_trucks == <<"2","5"," ","t","r","u","c","k","s">>
RawDescriptions == { <<>>, D_trucks }

F_txt   == <<"a",".","T","X","T">>
F_exe   == <<"a",".","e","x","e">>
F_nodot == <<"t","x","t">>
FileNames == { <<>>, F_txt, F_exe, F_nodot }

\* file_data: <<>> for a missing or empty field, else what base64.b64decode
\* makes of it: it raises, or yields a body of some size
FileDatas ==
    { <<>>,
      <<[decodes |-> TRUE,  body |-> "report", size |-> 10]>>,
      <<[decodes |-> TRUE,  body |-> "huge",   size |-> MAX_CONTENT_LENGTH + 1]>>,
      <<[decodes |-> FALSE, body |-> "",       size |-> 0]>> }

\* JSON objects sent to /api/chat: a file is sent with its name, or not at
\* all, or (one case) as data that lacks a name
ChatData ==
    { data \in [question : RawQuestions, company_website : RawWebsites,
                company_description : RawDescriptions,
                file_data : FileDatas, file_name : FileNames,
                file_type : {<<"text/plain">>}] :
        \/ truthy(data.file_data) /\ truthy(data.file_name)
        \/ ~truthy(data.file_data) /\ ~truthy(data.file_name)
        \/ data.file_data = <<[decodes |-> TRUE, body |-> "report", size |-> 10]>>
           /\ ~truthy(data.file_name) }

\* what the request body is: not JSON, a JSON object, or JSON that is no object
BodyKinds == {"not_json", "object", "not_object"}

(***************************************************************************)
(* /api/chat (app.py): validation and file processing.                     *)
(***************************************************************************)
\* index of the last "." of filename, 0 when there is none
last_dot(filename) ==
    IF \E i \in 1..Len(filename) : filename[i] = "."
    THEN CHOOSE i \in 1..Len(filename) :
            /\ filename[i] = "."
            /\ \A j \in (i + 1)..Len(filename) : filename[j] # "."
    ELSE 0

allowed_file(filename) ==
    /\ str_contains(<<".">>, filename)
    /\ lower(SubSeq(filename, last_dot(filename) + 1, Len(filename)))
           \in ALLOWED_EXTENSIONS

validate_url(url) ==
    IF ~truthy(url) THEN TRUE
    ELSE startswith(url, <<"h","t","t","p",":","/","/">>) \/ startswith(url, <<"h","t","t","p","s",":","/","/">>)

NoResponse == [status |-> 0, error |-> <<>>, message |-> <<>>, received_data |-> <<>>]

\* lines 225-227 with the exception's text sent to the client
error_response_with_exception_text(status, text) ==
    [status |-> status,
     error |-> IF status = 500 THEN <<text, ": ", "str(e)">> ELSE <<text>>,
     message |-> <<>>, received_data |-> <<>>]

\* the error responses of chat(): jsonify({"error": text}), status
error_response(status, text) ==
    [status |-> status, error |-> <<text>>, message |-> <<>>, received_data |-> <<>>]

\* line 141 without its test: every body is taken for JSON
request_is_json_unchecked(kind) ==
    TRUE

\* line 141: request.is_json, read from the Content-Type header alone
request_is_json(kind) ==
    kind # "not_json"

\* the least length of a body that carries data.file_data: base64 spends four
\* characters on three decoded bytes
content_length(data) ==
    IF truthy(data.file_data) THEN (data.file_data[1].size * 4) \div 3 ELSE 0

\* lines 144-145: TRUE when an exception leaves request.get_json() or
\* data.keys(). The body is no JSON object, or it is longer than
\* app.config['MAX_CONTENT_LENGTH'] (line 23) and the installed framework
\* refuses to read it (limit_enforced): a framework that applies the limit
\* to every body raises inside the handler's try block, one that applies it
\* to form bodies alone reads the JSON body whatever its length
get_json_raises(kind, data, limit_enforced) ==
    \/ kind # "object"
    \/ limit_enforced /\ content_length(data) > MAX_CONTENT_LENGTH

\* line 148: data.get('question', '').strip()
required_question(data) ==
    strip(data.question)

\* lines 180-182, what the upload store does with the file: it is stored,
\* or open raises and nothing is stored, or the write raises after open has
\* created the file (or emptied the one that was there)
StoreBehaviours == {"ok", "open_raises", "write_raises"}

\* lines 163-194: the optional file. status 0 when there is no file to
\* process or the file was stored, else the error response to send
process_file(data, store) ==
    LET fd == data.file_data
        fn == data.file_name
        file_path == <<UPLOAD_FOLDER, now, fn>>
        stop(text, events) ==
            [status |-> 400, error |-> text, file_info |-> <<>>,
             uploads |-> uploads, events |-> events]
    IN  IF ~(truthy(fd) /\ truthy(fn))
        THEN [status |-> 0, error |-> "", file_info |-> <<>>,
              uploads |-> uploads, events |-> <<>>]
        ELSE IF ~allowed_file(fn)
        THEN stop("File type not allowed", <<"allowed_file">>)
        ELSE IF ~fd[1].decodes
        THEN stop("Error processing uploaded file", <<"allowed_file", "b64decode">>)
        ELSE IF fd[1].size > MAX_CONTENT_LENGTH
        THEN stop("File too large. Maximum size is 5MB", <<"allowed_file", "b64decode">>)
        ELSE IF store = "open_raises"
        THEN stop("Error processing uploaded file",
                  <<"allowed_file", "b64decode", "open">>)
        ELSE IF store = "write_raises"
        THEN [status |-> 400, error |-> "Error processing uploaded file",
              file_info |-> <<>>,
              uploads |-> {u \in uploads : u[1] # file_path}
                          \cup {<<file_path, "">>},
              events |-> <<"allowed_file", "b64decode", "open", "write", "raise">>]
        ELSE [status |-> 0, error |-> "",
              file_info |-> <<[name |-> fn, type |-> data.file_type,
                               size |-> fd[1].size, saved_path |-> file_path]>>,
              uploads |-> {u \in uploads : u[1] # file_path}
                          \cup {<<file_path, fd[1].body>>},
              events |-> <<"allowed_file", "b64decode", "open", "write">>]

\* chat() with the URL check placed after the call of the orchestrator
chat_validate_url_check_after_answer(kind, data, limit_enforced, store) ==
    LET q == required_question(data)
        w == strip(data.company_website)
        d == strip(data.company_description)
        f == process_file(data, store)
        result(status, text, fi, up, events) ==
            [status |-> status, error |-> text, question |-> q,
             company_website |-> w, company_description |-> d,
             file_info |-> fi, uploads |-> up, events |-> events]
    IN  IF ~request_is_json(kind)
        THEN result(400, "Request must be JSON", <<>>, uploads, <<>>)
        ELSE IF get_json_raises(kind, data, limit_enforced)
        THEN result(500, "Internal server error", <<>>, uploads, <<>>)
        ELSE IF ~truthy(q)
        THEN result(400, "Question is required", <<>>, uploads, <<>>)
        ELSE IF f.status # 0
        THEN result(f.status, f.error, f.file_info, f.uploads, f.events)
        ELSE IF truthy(w) /\ ~validate_url(w)
        THEN result(400, "Invalid website URL format", <<>>, f.uploads,
                    f.events \o <<"generate_ai_response_sync",
                                  "is_fleetworthy_related", "validate_url">>)
        ELSE result(0, "", f.file_info, f.uploads, f.events)

\* the body of chat(), lines 141-194, up to the call of
\* generate_ai_response_sync: status 0 when every check passed, else the
\* error response to send
chat_validate(kind, data, limit_enforced, store) ==
    LET q == required_question(data)
        w == strip(data.company_website)
        d == strip(data.company_description)
        f == process_file(data, store)
        url_events == IF truthy(w) THEN <<"validate_url">> ELSE <<>>
        result(status, text, fi, up, events) ==
            [status |-> status, error |-> text, question |-> q,
             company_website |-> w, company_description |-> d,
             file_info |-> fi, uploads |-> up, events |-> events]
    IN  IF ~request_is_json(kind)
        THEN result(400, "Request must be JSON", <<>>, uploads, <<>>)
        ELSE IF get_json_raises(kind, data, limit_enforced)
        THEN result(500, "Internal server error", <<>>, uploads, <<>>)
        ELSE IF ~truthy(q)
        THEN result(400, "Question is required", <<>>, uploads, <<>>)
        ELSE IF truthy(w) /\ ~validate_url(w)
        THEN result(400, "Invalid website URL format", <<>>, uploads, url_events)
        ELSE result(f.status, f.error, f.file_info, f.uploads,
                    url_events \o f.events)

(***************************************************************************)
(* Research orchestrator and the /api/chat handler (app.py): actions.      *)
(* A request runs from "idle" through the awaits of                        *)
(* generate_ai_response_async to "done", where its response has been sent. *)
(***************************************************************************)
Refusal == <<"Sorry, but I can only help with questions about Fleetworthy's fleet management solutions. Please ask me about our transportation, logistics, or fleet management services!">>

Apology == <<"I apologize, but I encountered an error while researching your question. Please try again, and if the issue persists, feel free to contact our sales team directly.">>

EmptyData ==
    [question |-> <<>>, company_website |-> <<>>, company_description |-> <<>>,
     file_data |-> <<>>, file_name |-> <<>>, file_type |-> <<"text/plain">>]

\* a complete request with a file, as a body sent under Content-Type text/plain
TextPlainData ==
    [question |-> Q_fuel, company_website |-> W_http, company_description |-> D_trucks,
     file_data |-> <<[decodes |-> TRUE, body |-> "report", size |-> 10]>>,
     file_name |-> F_txt, file_type |-> <<"text/plain">>]

NoRequest == [kind |-> "none", data |-> EmptyData]

\* the 200 response of chat(), lines 213-223
ok_response(ai_response, q, w, d, fi) ==
    [status |-> 200, error |-> <<>>, message |-> ai_response,
     received_data |-> <<[question |-> q, has_website |-> truthy(w),
                          has_description |-> truthy(d), has_file |-> truthy(fi),
                          file_info |-> fi]>>]

\* the context dict of generate_ai_response_async, lines 84-88
context_of(w, d, fi) ==
    <<[company_website |-> w, company_description |-> d, file_info |-> fi]>>

\* a combination that drops the company section
combine_question_only(q_research, c_research) ==
    q_research

\* line 101: the f-string that joins the two research texts
combine(q_research, c_research) ==
    q_research \o <<Separator>> \o c_research

\* a branch that looks at the website alone
wants_company_research_website_only(w, d) ==
    truthy(w)

\* line 91: the branch that decides on company research
wants_company_research(w, d) ==
    truthy(w) \/ truthy(d)

\* generate_ai_response_async with the agent created ahead of the gate
orchestrator_start_agent_first(q, w, d) ==
    IF ~is_fleetworthy_related(q)
    THEN [response |-> Refusal, agent |-> <<create_research_agent("main")>>,
          events |-> <<"create_research_agent", "is_fleetworthy_related">>,
          next |-> "done"]
    ELSE [response |-> <<>>, agent |-> <<create_research_agent("main")>>,
          events |-> <<"create_research_agent", "is_fleetworthy_related">>,
          next |-> IF wants_company_research(w, d)
                   THEN "await_company" ELSE "await_question"]

\* generate_ai_response_async that starts the question research without
\* awaiting the company research
orchestrator_start_question_not_awaiting_company(q, w, d) ==
    IF ~is_fleetworthy_related(q)
    THEN [response |-> Refusal, agent |-> <<>>,
          events |-> <<"is_fleetworthy_related">>, next |-> "done"]
    ELSE [response |-> <<>>, agent |-> <<create_research_agent("main")>>,
          events |-> <<"is_fleetworthy_related", "create_research_agent">>,
          next |-> IF wants_company_research(w, d)
                   THEN "await_question_with_company" ELSE "await_question"]

\* generate_ai_response_async suspended on something that never completes
orchestrator_start_never_resumed(q, w, d) ==
    IF ~is_fleetworthy_related(q)
    THEN [response |-> Refusal, agent |-> <<>>,
          events |-> <<"is_fleetworthy_related">>, next |-> "done"]
    ELSE [response |-> <<>>, agent |-> <<create_research_agent("main")>>,
          events |-> <<"is_fleetworthy_related", "create_research_agent">>,
          next |-> "suspended"]

\* generate_ai_response_async, lines 74-91, up to its first await: the Topic
\* Gate, the refusal, the creation of the research agent and the branch
orchestrator_start(q, w, d) ==
    IF ~is_fleetworthy_related(q)
    THEN [response |-> Refusal, agent |-> <<>>,
          events |-> <<"is_fleetworthy_related">>, next |-> "done"]
    ELSE [response |-> <<>>, agent |-> <<create_research_agent("main")>>,
          events |-> <<"is_fleetworthy_related", "create_research_agent">>,
          next |-> IF wants_company_research(w, d)
                   THEN "await_company" ELSE "await_question"]

\* chat() up to the first await of generate_ai_response_async: validation,
\* file processing, then the start of the orchestrator
Chat ==
    /\ pc = "idle"
    /\ \E kind \in BodyKinds, data \in ChatData,
          limit_enforced \in BOOLEAN, store \in StoreBehaviours :
         LET v == chat_validate(kind, data, limit_enforced, store)
             o == orchestrator_start(v.question, v.company_website,
                                     v.company_description)
         IN  /\ kind = "not_object" => data = EmptyData
             /\ kind = "not_json" => data \in {EmptyData, TextPlainData}
             /\ limit_enforced => v # chat_validate(kind, data, FALSE, store)
             /\ store # "ok" => v # chat_validate(kind, data, limit_enforced, "ok")
             /\ request' = [kind |-> kind, data |-> data]
             /\ uploads' = v.uploads
             /\ IF v.status # 0
                THEN /\ http' = error_response(v.status, v.error)
                     /\ trace' = v.events
                     /\ pc' = "done"
                     /\ UNCHANGED <<question, company_website, company_description,
                                    file_info, research_agent>>
                ELSE /\ question' = v.question
                     /\ company_website' = v.company_website
                     /\ company_description' = v.company_description
                     /\ file_info' = v.file_info
                     /\ research_agent' = o.agent
                     /\ trace' = v.events \o <<"generate_ai_response_sync">> \o o.events
                     /\ pc' = o.next
                     /\ http' = IF o.next = "done"
                                THEN ok_response(o.response, v.question,
                                                 v.company_website,
                                                 v.company_description, v.file_info)
                                ELSE NoResponse
    /\ UNCHANGED <<company_research, question_research, company_source, question_source>>
    /\ UNCHANGED <<envVars, now, gateVars, fb_calls, kb_call, sessions>>

\* line 93: await research_agent.research_company(...)
ResearchCompany ==
    /\ pc = "await_company"
    /\ \E rt \in RuntimeBehaviours :
         LET r == agent_research_company(pkg, research_agent[1], company_website,
                                         company_description, rt)
         IN  /\ trace' = trace \o <<"research_company">> \o r.events
             /\ research_agent' = <<[research_agent[1] EXCEPT !.agent = r.agent]>>
             /\ IF r.raised
                THEN /\ http' = ok_response(Apology, question, company_website,
                                            company_description, file_info)
                     /\ pc' = "done"
                     /\ UNCHANGED <<company_research, company_source>>
                ELSE /\ company_research' = r.result
                     /\ company_source' = r.source
                     /\ pc' = "await_question_with_company"
                     /\ UNCHANGED http
    /\ UNCHANGED <<request, question, company_website, company_description, file_info,
                   question_research, question_source>>
    /\ UNCHANGED <<envVars, uploads, now, gateVars, fb_calls, kb_call, sessions>>

\* lines 98-101, 107 and chat() lines 213-223: the question research that
\* follows company research, the combined answer and the 200 response
ResearchQuestionWithCompany ==
    /\ pc = "await_question_with_company"
    /\ \E rt \in RuntimeBehaviours :
         LET r == agent_research_question(pkg, research_agent[1], question,
                     context_of(company_website, company_description, file_info), rt)
         IN  /\ trace' = trace \o <<"research_question">> \o r.events
             /\ research_agent' = <<[research_agent[1] EXCEPT !.agent = r.agent]>>
             /\ IF r.raised
                THEN /\ http' = ok_response(Apology, question, company_website,
                                            company_description, file_info)
                     /\ UNCHANGED <<question_research, question_source>>
                ELSE /\ question_research' = r.result
                     /\ question_source' = r.source
                     /\ http' = ok_response(combine(r.result, company_research),
                                            question, company_website,
                                            company_description, file_info)
             /\ pc' = "done"
    /\ UNCHANGED <<request, question, company_website, company_description, file_info,
                   company_research, company_source>>
    /\ UNCHANGED <<envVars, uploads, now, gateVars, fb_calls, kb_call, sessions>>

\* lines 105, 107 and chat() lines 213-223: question research alone
ResearchQuestion ==
    /\ pc = "await_question"
    /\ \E rt \in RuntimeBehaviours :
         LET r == agent_research_question(pkg, research_agent[1], question,
                     context_of(company_website, company_description, file_info), rt)
         IN  /\ trace' = trace \o <<"research_question">> \o r.events
             /\ research_agent' = <<[research_agent[1] EXCEPT !.agent = r.agent]>>
             /\ IF r.raised
                THEN /\ http' = ok_response(Apology, question, company_website,
                                            company_description, file_info)
                     /\ UNCHANGED <<question_research, question_source>>
                ELSE /\ question_research' = r.result
                     /\ question_source' = r.source
                     /\ http' = ok_response(r.result, question, company_website,
                                            company_description, file_info)
             /\ pc' = "done"
    /\ UNCHANGED <<request, question, company_website, company_description, file_info,
                   company_research, company_source>>
    /\ UNCHANGED <<envVars, uploads, now, gateVars, fb_calls, kb_call, sessions>>

\* the response is sent and the request's values are discarded
Finish ==
    /\ pc = "done"
    /\ pc' = "idle"
    /\ request' = NoRequest
    /\ question' = <<>>
    /\ company_website' = <<>>
    /\ company_description' = <<>>
    /\ file_info' = <<>>
    /\ research_agent' = <<>>
    /\ company_research' = <<>>
    /\ question_research' = <<>>
    /\ company_source' = "none"
    /\ question_source' = "none"
    /\ http' = NoResponse
    /\ trace' = <<>>
    /\ UNCHANGED <<envVars, uploads, now, gateVars, fb_calls, kb_call, sessions>>

\* a second passes between two requests
Tick ==
    /\ pc = "idle"
    /\ now < MaxClock
    /\ now' = now + 1
    /\ UNCHANGED <<envVars, reqVars, uploads, gateVars, fb_calls, kb_call, sessions>>

InitRequest ==
    /\ pc = "idle"
    /\ request = NoRequest
    /\ question = <<>>
    /\ company_website = <<>>
    /\ company_description = <<>>
    /\ file_info = <<>>
    /\ research_agent = <<>>
    /\ company_research = <<>>
    /\ question_research = <<>>
    /\ company_source = "none"
    /\ question_source = "none"
    /\ http = NoResponse
    /\ trace = <<>>
    /\ uploads = {}
    /\ now = 0

Init ==
    /\ AGENTS_SDK_AVAILABLE \in BOOLEAN
    /\ OPENAI_API_KEY \in BOOLEAN
    /\ BRAVE_API_KEY \in BOOLEAN
    /\ pkg \in Packages
    /\ InitRequest
    /\ gate_pc = "off"
    /\ gate_question = <<>>
    /\ gate_result = FALSE
    /\ fb_calls = <<>>
    /\ kb_call = NoKBCall
    /\ sessions = NoSessions

\* requests handled one after the other within one clock second
Next ==
    \/ Chat
    \/ ResearchCompany
    \/ ResearchQuestionWithCompany
    \/ ResearchQuestion
    \/ Finish

Spec == Init /\ [][Next]_vars

\* the same with seconds passing between requests
NextClock ==
    \/ Next
    \/ Tick

SpecClock == Init /\ [][NextClock]_vars

\* generate_ai_response_sync runs the orchestrator with run_until_complete:
\* the handler resumes whenever the research call it awaits has returned or
\* raised, and every such call is taken to do one or the other eventually
SpecLive ==
    /\ Init
    /\ [][Next]_vars
    /\ WF_vars(ResearchCompany)
    /\ WF_vars(ResearchQuestionWithCompany)
    /\ WF_vars(ResearchQuestion)

(***************************************************************************)
(* Direct calls of the Topic Gate: one question, one call.                 *)
(***************************************************************************)
GateAlphabet == {"d", "o", "t", "e", "l", "D"}

GateQuestions ==
    UNION { [1..n -> GateAlphabet] : n \in 0..MaxQuestionLen }
    \cup {Q_weather, Q_FUEL_costs, Q_fuel, Q_Fuel_padded, Q_hi, <<" ">>}

GateCall ==
    /\ gate_pc = "call"
    /\ gate_result' = is_fleetworthy_related(gate_question)
    /\ gate_pc' = "returned"
    /\ UNCHANGED <<envVars, reqVars, uploads, now, gate_question, fb_calls, kb_call, sessions>>

InitGate ==
    /\ AGENTS_SDK_AVAILABLE = FALSE
    /\ OPENAI_API_KEY = FALSE
    /\ BRAVE_API_KEY = FALSE
    /\ pkg = "agents"
    /\ InitRequest
    /\ gate_pc = "call"
    /\ gate_question \in GateQuestions
    /\ gate_result = FALSE
    /\ fb_calls = <<>>
    /\ kb_call = NoKBCall
    /\ sessions = NoSessions

NextGate == GateCall

SpecGate == InitGate /\ [][NextGate]_vars

(***************************************************************************)
(* Direct calls of the Fallback Responder, on agents of either package and *)
(* of any session, in any order.                                           *)
(***************************************************************************)
SessionIds == {"main", "default"}

FallbackContexts ==
    { <<>>, context_of(<<>>, <<>>, <<>>), context_of(W_http, D_trucks, <<>>) }

FallbackCompany ==
    /\ Len(fb_calls) < MaxCalls
    /\ \E p \in Packages, sid \in SessionIds,
          w \in {<<>>, W_http}, d \in RawDescriptions :
         fb_calls' = Append(fb_calls,
            [method |-> "research_company", pkg |-> p, session_id |-> sid,
             args |-> <<w, d>>,
             result |-> Simple_research_company(p, SimpleResearchAgent(sid), w, d)])
    /\ UNCHANGED <<envVars, reqVars, uploads, now, gateVars, kb_call, sessions>>

FallbackQuestion ==
    /\ Len(fb_calls) < MaxCalls
    /\ \E p \in Packages, sid \in SessionIds,
          q \in {Q_fuel, Q_hi}, context \in FallbackContexts :
         fb_calls' = Append(fb_calls,
            [method |-> "research_question", pkg |-> p, session_id |-> sid,
             args |-> <<q, context>>,
             result |-> Simple_research_question(p, SimpleResearchAgent(sid), q, context)])
    /\ UNCHANGED <<envVars, reqVars, uploads, now, gateVars, kb_call, sessions>>

InitFallback ==
    /\ AGENTS_SDK_AVAILABLE = FALSE
    /\ OPENAI_API_KEY = FALSE
    /\ BRAVE_API_KEY = FALSE
    /\ pkg = "agents"
    /\ InitRequest
    /\ gate_pc = "off"
    /\ gate_question = <<>>
    /\ gate_result = FALSE
    /\ fb_calls = <<>>
    /\ kb_call = NoKBCall
    /\ sessions = NoSessions

NextFallback ==
    \/ FallbackCompany
    \/ FallbackQuestion

SpecFallback == InitFallback /\ [][NextFallback]_vars

(***************************************************************************)
(* Knowledge base (services/knowledge_base.py): retrieval of context and   *)
(* augmentation of an answer.                                              *)
(***************************************************************************)
\* the chunks the index returns for one query, at most
MaxHits == 6

\* the words of the longest text that is chunked
MaxWords == 6

\* the defaults of chunk_size and overlap
chunk_size_default == 500
overlap_default == 50

\* the default of max_context_length
max_context_length_default == 2000

\* _initialize_components: the completion client exists when the key is set
openai_client == IF OPENAI_API_KEY THEN <<"OpenAI">> ELSE <<>>

\* len() of a text: the characters of all its pieces
RECURSIVE str_len(_)
str_len(s) == IF s = <<>> THEN 0 ELSE Len(Head(s)) + str_len(Tail(s))

Min(a, b) == IF a <= b THEN a ELSE b

X10   == "xxxxxxxxxx"
X100  == X10 \o X10 \o X10 \o X10 \o X10 \o X10 \o X10 \o X10 \o X10 \o X10
X500  == X100 \o X100 \o X100 \o X100 \o X100
X996  == X500 \o X100 \o X100 \o X100 \o X100
             \o X10 \o X10 \o X10 \o X10 \o X10 \o X10 \o X10 \o X10 \o X10 \o "xxxxxx"

\* chunk texts of 5, 1000 and 1996 characters
ShortChunk  == <<"truck">>
MiddleChunk == <<X500, X500>>
LongChunk   == <<X500, X500, X996>>

\* one stored chunk as collection.query returns it: document and metadata
StoredChunk(content) ==
    [document |-> content,
     metadata |-> [source |-> <<"fleet.pdf">>, document_type |-> "sales_material"]]

Chunks == { StoredChunk(ShortChunk), StoredChunk(MiddleChunk), StoredChunk(LongChunk) }

\* distances and relevance scores are counted in tenths: 10 stands for 1.0
DistanceUnit == 10

\* one entry of a query result: a stored chunk and its distance to the query
Hit(chunk, distance) ==
    [document |-> chunk.document, metadata |-> chunk.metadata, distance |-> distance]

\* the ranked chunks of the index for a query, most similar first; the
\* distance grows by 0.3 from one rank to the next
HitLists ==
    { [i \in 1..Len(h) |-> Hit(h[i], 3 * i)] :
        h \in UNION { [1..n -> Chunks] : n \in 0..MaxHits } }

\* distances of the index's default metric, squared L2, between embeddings
\* of unit length: from 0.0 to 4.0
Distances == {0, 5, 10, 15, 40}

\* ranked results of one chunk text under every ascending run of distances
ScoredHitLists ==
    { [i \in 1..Len(ds) |-> Hit(StoredChunk(ShortChunk), ds[i])] :
        ds \in { x \in UNION { [1..n -> Distances] : n \in 0..MaxHits } :
                   \A i \in 1..(Len(x) - 1) : x[i] <= x[i + 1] } }

\* the Semantic Search Collaborator on one query: the embedding raises, or
\* the vector query raises, or the query returns the first n_results hits
IndexBehaviours ==
    { [encode_raises |-> TRUE,  query_raises |-> FALSE, hits |-> <<>>],
      [encode_raises |-> FALSE, query_raises |-> TRUE,  hits |-> <<>>] }
    \cup { [encode_raises |-> FALSE, query_raises |-> FALSE, hits |-> h] : h \in HitLists }

\* line 143: 1 - results['distances'][0][i]
relevance_score(distance) ==
    DistanceUnit - distance

\* lines 139-144: one formatted result
formatted_result(hit) ==
    [content |-> hit.document, source |-> hit.metadata.source,
     document_type |-> hit.metadata.document_type,
     relevance_score |-> relevance_score(hit.distance)]

\* search_knowledge, lines 122-149; n_results records what the query asked
search_knowledge(query, n_results, index) ==
    IF index.encode_raises
    THEN [results |-> <<>>, n_results |-> 0, events |-> <<"encode", "raise">>]
    ELSE IF index.query_raises
    THEN [results |-> <<>>, n_results |-> n_results,
          events |-> <<"encode", "collection.query", "raise">>]
    ELSE [results |-> [i \in 1..Min(n_results, Len(index.hits)) |->
                          formatted_result(index.hits[i])],
          n_results |-> n_results,
          events |-> <<"encode", "collection.query">>]

\* line 165: f"From {result['source']}: {content}"
context_part(result) ==
    <<"From ">> \o result.source \o <<": ">> \o result.content

\* a loop that passes over a chunk that does not fit and goes on
RECURSIVE context_parts_skipping(_, _, _, _)
context_parts_skipping(results, i, current_length, max_context_length) ==
    IF i > Len(results) THEN <<>>
    ELSE IF current_length + str_len(results[i].content) <= max_context_length
    THEN <<context_part(results[i])>>
         \o context_parts_skipping(results, i + 1,
                current_length + str_len(results[i].content), max_context_length)
    ELSE context_parts_skipping(results, i + 1, current_length, max_context_length)

\* lines 160-168: the loop over the results, from result i on, with its break
RECURSIVE context_parts(_, _, _, _)
context_parts(results, i, current_length, max_context_length) ==
    IF i > Len(results) THEN <<>>
    ELSE IF current_length + str_len(results[i].content) <= max_context_length
    THEN <<context_part(results[i])>>
         \o context_parts(results, i + 1,
                current_length + str_len(results[i].content), max_context_length)
    ELSE <<>>

\* sep.join(parts), computed by halves
RECURSIVE join(_, _)
join(sep, parts) ==
    IF parts = <<>> THEN <<>>
    ELSE IF Len(parts) = 1 THEN parts[1]
    ELSE LET m == Len(parts) \div 2
         IN  join(sep, SubSeq(parts, 1, m)) \o sep
             \o join(sep, SubSeq(parts, m + 1, Len(parts)))

\* get_relevant_context, lines 151-170
get_relevant_context(query, max_context_length, index) ==
    LET s == search_knowledge(query, 5, index)
    IN  [context |-> IF s.results = <<>> THEN <<>>
                     ELSE join(<<"\n\n">>,
                               context_parts(s.results, 1, 0, max_context_length)),
         n_results |-> s.n_results,
         events |-> <<"search_knowledge">> \o s.events]

\* lines 199-208: the user prompt
user_prompt(q, kb_context, web_research) ==
    <<"Question: ">> \o q
    \o <<"\n\nFleetworthy Company Knowledge:\n">> \o kb_context
    \o <<"\n\nWeb Research Context:\n">> \o web_research
    \o <<"\n\nPlease provide a helpful, conversational response about how Fleetworthy can help.">>

\* the completion collaborator on one call: it raises, or its message has no
\* content, or it answers
CompletionAnswer == <<" ", "Fleetworthy keeps a fleet of 25 trucks compliant.", "\n">>

CompletionBehaviours ==
    { [raises |-> TRUE,  content |-> <<>>],
      [raises |-> FALSE, content |-> <<>>],
      [raises |-> FALSE, content |-> <<CompletionAnswer>>] }

\* an augmentation that answers with the base text when no context was found
generate_enhanced_response_skips_empty_context(q, web_research, index, completion) ==
    IF ~truthy(openai_client)
    THEN [result |-> web_research, raised |-> FALSE, prompt |-> <<>>, events |-> <<>>]
    ELSE LET c == get_relevant_context(q, max_context_length_default, index)
         IN  IF c.context = <<>>
             THEN [result |-> web_research, raised |-> FALSE, prompt |-> <<>>,
                   events |-> <<"get_relevant_context">> \o c.events]
             ELSE IF completion.raises \/ completion.content = <<>>
             THEN [result |-> web_research, raised |-> FALSE,
                   prompt |-> user_prompt(q, c.context, web_research),
                   events |-> <<"get_relevant_context">> \o c.events
                              \o <<"chat.completions.create", "raise">>]
             ELSE [result |-> strip(completion.content[1]), raised |-> FALSE,
                   prompt |-> user_prompt(q, c.context, web_research),
                   events |-> <<"get_relevant_context">> \o c.events
                              \o <<"chat.completions.create">>]

\* generate_enhanced_response, lines 185-225: raised is TRUE when an
\* exception leaves the method
generate_enhanced_response(q, web_research, index, completion) ==
    IF ~truthy(openai_client)
    THEN [result |-> web_research, raised |-> FALSE, prompt |-> <<>>, events |-> <<>>]
    ELSE LET c == get_relevant_context(q, max_context_length_default, index)
             prompt == user_prompt(q, c.context, web_research)
             events == <<"get_relevant_context">> \o c.events
                       \o <<"chat.completions.create">>
         IN  IF completion.raises \/ completion.content = <<>>
             THEN [result |-> web_research, raised |-> FALSE, prompt |-> prompt,
                   events |-> events \o <<"raise">>]
             ELSE [result |-> strip(completion.content[1]), raised |-> FALSE,
                   prompt |-> prompt, events |-> events]

\* text.split(): the maximal runs of characters that are not whitespace,
\* in order. Computed by halves: a run that crosses the middle is the last
\* run of the left half followed by the first run of the right half.
RECURSIVE split(_)
split(s) ==
    IF s = <<>> THEN <<>>
    ELSE IF Len(s) = 1 THEN (IF s[1] \in Whitespace THEN <<>> ELSE <<s>>)
    ELSE LET m == Len(s) \div 2
             l == split(SubSeq(s, 1, m))
             r == split(SubSeq(s, m + 1, Len(s)))
         IN  IF s[m] \notin Whitespace /\ s[m + 1] \notin Whitespace
             THEN SubSeq(l, 1, Len(l) - 1) \o <<l[Len(l)] \o r[1]>> \o Tail(r)
             ELSE l \o r

\* lines 77-80: the loop over range(i, len(words), step), i counted from 0
RECURSIVE chunks_from(_, _, _, _)
chunks_from(words, i, chunk_size, step) ==
    IF i >= Len(words) THEN <<>>
    ELSE LET chunk == join(<<" ">>,
                           SubSeq(words, i + 1, Min(i + chunk_size, Len(words))))
         IN  (IF strip(chunk) # <<>> THEN <<strip(chunk)>> ELSE <<>>)
             \o chunks_from(words, i + step, chunk_size, step)

\* a chunker that steps by the whole chunk size
chunk_text_without_overlap(text, chunk_size, overlap) ==
    chunks_from(split(text), 0, chunk_size, chunk_size)

\* chunk_text, lines 72-82
chunk_text(text, chunk_size, overlap) ==
    chunks_from(split(text), 0, chunk_size, chunk_size - overlap)

(***************************************************************************)
(* Direct calls of the knowledge base: one call of either method.          *)
(***************************************************************************)
\* the words a text is written from: the first has two letters
Letters == <<"a", "b", "c", "d", "e", "f", "g", "h">>

WordAt(i) == IF i = 1 THEN <<"a", "a">> ELSE <<Letters[i]>>

WordLists == { [i \in 1..n |-> WordAt(i)] : n \in 0..MaxWords }

\* what stands between two words, and around the text
WordSeparators == { <<" ">>, <<" ", " ">>, <<"\n">> }

Paddings == { <<>>, <<" ">> }

\* chunk_size and overlap of a call: chunk_size > overlap >= 0
ChunkParameters ==
    { <<chunk_size, overlap>> \in (1..3) \X (0..2) : chunk_size > overlap }
    \cup { <<chunk_size_default, overlap_default>> }

WebResearchTexts == { <<>>, <<"Fleets like yours cut fuel costs by 15%.">> }

Budgets == { 10, max_context_length_default }

\* knowledge_base.generate_enhanced_response(question, web_research)
KBAugment ==
    /\ kb_call = NoKBCall
    /\ \E web_research \in WebResearchTexts, index \in IndexBehaviours,
          completion \in CompletionBehaviours :
         LET r == generate_enhanced_response(Q_fuel, web_research, index, completion)
         IN  kb_call' = [method |-> "generate_enhanced_response",
                         question |-> Q_fuel, web_research |-> web_research,
                         max_context_length |-> max_context_length_default,
                         index |-> index, completion |-> completion,
                         result |-> r.result, raised |-> r.raised,
                         events |-> r.events]
    /\ UNCHANGED <<envVars, reqVars, uploads, now, gateVars, fb_calls, sessions>>

\* knowledge_base.get_relevant_context(query, max_context_length)
KBContext ==
    /\ kb_call = NoKBCall
    /\ \E max_context_length \in Budgets, index \in IndexBehaviours :
         LET r == get_relevant_context(Q_fuel, max_context_length, index)
         IN  kb_call' = [method |-> "get_relevant_context",
                         question |-> Q_fuel, web_research |-> <<>>,
                         max_context_length |-> max_context_length,
                         index |-> index,
                         completion |-> [raises |-> FALSE, content |-> <<>>],
                         result |-> r.context, raised |-> FALSE,
                         events |-> r.events, n_results |-> r.n_results]
    /\ UNCHANGED <<envVars, reqVars, uploads, now, gateVars, fb_calls, sessions>>

\* knowledge_base.chunk_text(text, chunk_size, overlap), on the text that
\* writes the words ws with separator sep between them and pad around them
KBChunk ==
    /\ kb_call = NoKBCall
    /\ \E ws \in WordLists, sep \in WordSeparators, pad \in Paddings,
          cp \in ChunkParameters :
         LET text == pad \o join(sep, ws) \o pad
         IN  kb_call' = [method |-> "chunk_text", text |-> text, words |-> ws,
                         chunk_size |-> cp[1], overlap |-> cp[2],
                         result |-> chunk_text(text, cp[1], cp[2])]
    /\ UNCHANGED <<envVars, reqVars, uploads, now, gateVars, fb_calls, sessions>>

\* the PDF files handed to add_document: one that cannot be read, one
\* without text, and documents of one page whose words make one, two and
\* three chunks
DocumentWordCounts == {3, 451, 901}

DocumentWords(n) == [i \in 1..n |-> <<Letters[(i % Len(Letters)) + 1]>>]

Documents ==
    { [readable |-> FALSE, pages |-> <<>>], [readable |-> TRUE, pages |-> << <<>> >>] }
    \cup { [readable |-> TRUE, pages |-> <<join(<<" ">>, DocumentWords(n))>>] :
              n \in DocumentWordCounts }

\* extract_text_from_pdf, lines 55-70: the pages' texts, each followed by a
\* newline, stripped; the empty string when reading raises
RECURSIVE pages_text(_)
pages_text(pages) ==
    IF pages = <<>> THEN <<>>
    ELSE pages[1] \o <<"\n">> \o pages_text(Tail(pages))

extract_text_from_pdf(pdf) ==
    IF ~pdf.readable THEN <<>> ELSE strip(pages_text(pdf.pages))

\* line 96: the id of chunk i of the file
chunk_id(basename, i) == <<basename, "_chunk_", i>>

\* what collection.add does with an id the collection holds already
DuplicateBehaviours == {"ignored", "raises"}

\* lines 95-111, from chunk i (counted from 0) on: each chunk is encoded and
\* added to the collection by a call of its own; fail names the call that
\* raises, if one does
RECURSIVE add_chunks(_, _, _, _, _, _)
add_chunks(collection, chunks, i, basename, document_type, fail) ==
    IF i >= Len(chunks)
    THEN [collection |-> collection, raised |-> FALSE, events |-> <<>>]
    ELSE IF fail.at = i /\ fail.call = "encode"
    THEN [collection |-> collection, raised |-> TRUE, events |-> <<"encode", "raise">>]
    ELSE IF fail.at = i /\ fail.call = "add"
    THEN [collection |-> collection, raised |-> TRUE,
          events |-> <<"encode", "collection.add", "raise">>]
    ELSE IF \E c \in collection : c.id = chunk_id(basename, i)
    THEN IF fail.duplicate = "raises"
         THEN [collection |-> collection, raised |-> TRUE,
               events |-> <<"encode", "collection.add", "raise">>]
         ELSE LET rest == add_chunks(collection, chunks, i + 1, basename,
                                     document_type, fail)
              IN  [rest EXCEPT !.events = <<"encode", "collection.add">> \o @]
    ELSE LET stored == [id |-> chunk_id(basename, i), document |-> chunks[i + 1],
                        source |-> basename, document_type |-> document_type,
                        chunk_index |-> i]
             rest == add_chunks(collection \cup {stored}, chunks, i + 1, basename,
                                document_type, fail)
         IN  [rest EXCEPT !.events = <<"encode", "collection.add">> \o @]

\* add_document, lines 84-120
add_document(pdf, basename, document_type, collection, fail) ==
    LET text == extract_text_from_pdf(pdf)
        chunks == chunk_text(text, chunk_size_default, overlap_default)
        r == add_chunks(collection, chunks, 0, basename, document_type, fail)
    IN  IF ~truthy(text)
        THEN [result |-> FALSE, collection |-> collection,
              events |-> <<"extract_text_from_pdf">>]
        ELSE [result |-> ~r.raised, collection |-> r.collection,
              events |-> <<"extract_text_from_pdf", "chunk_text">> \o r.events]

\* the name of the file that is added
F_pdf == <<"f", ".", "p", "d", "f">>

\* what the collection holds before the call: nothing, a chunk of another
\* file, or chunk 0 of an earlier version of the file
Collections ==
    { {},
      { [id |-> chunk_id(F_txt, 0), document |-> <<"x">>, source |-> F_txt,
         document_type |-> "sales_material", chunk_index |-> 0] },
      { [id |-> chunk_id(F_pdf, 0), document |-> <<"o", "l", "d">>, source |-> F_pdf,
         document_type |-> "sales_material", chunk_index |-> 0] } }

\* the calls that may raise while chunks are added: none (at = -1), or the
\* encoding or the adding of chunk at
Failures ==
    { [at |-> at, call |-> call, duplicate |-> dup] :
        at \in -1..2, call \in {"encode", "add"}, dup \in DuplicateBehaviours }

\* knowledge_base.add_document(file_path, document_type)
KBAddDocument ==
    /\ kb_call = NoKBCall
    /\ \E pdf \in Documents, collection \in Collections, fail \in Failures :
         LET r == add_document(pdf, F_pdf, "sales_material", collection, fail)
         IN  /\ fail.at = -1 => fail.call = "encode"
             /\ kb_call' = [method |-> "add_document", pdf |-> pdf,
                            basename |-> F_pdf, before |-> collection,
                            fail |-> fail, collection |-> r.collection,
                            result |-> r.result, events |-> r.events]
    /\ UNCHANGED <<envVars, reqVars, uploads, now, gateVars, fb_calls, sessions>>

\* knowledge_base.search_knowledge(query, n_results)
KBSearch ==
    /\ kb_call = NoKBCall
    /\ \E n_results \in {1, 3, 5}, hits \in ScoredHitLists, fails \in {"no", "encode", "query"} :
         LET index == [encode_raises |-> fails = "encode", query_raises |-> fails = "query",
                       hits |-> hits]
             r == search_knowledge(Q_fuel, n_results, index)
         IN  /\ fails # "no" => hits = <<>>
             /\ kb_call' = [method |-> "search_knowledge", question |-> Q_fuel,
                            n_results |-> n_results, index |-> index,
                            result |-> r.results, raised |-> FALSE,
                            events |-> r.events]
    /\ UNCHANGED <<envVars, reqVars, uploads, now, gateVars, fb_calls, sessions>>

InitKB ==
    /\ AGENTS_SDK_AVAILABLE = FALSE
    /\ OPENAI_API_KEY \in BOOLEAN
    /\ BRAVE_API_KEY = FALSE
    /\ pkg = "agents"
    /\ InitRequest
    /\ gate_pc = "off"
    /\ gate_question = <<>>
    /\ gate_result = FALSE
    /\ fb_calls = <<>>
    /\ kb_call = NoKBCall
    /\ sessions = NoSessions

NextKB ==
    \/ KBAugment
    \/ KBContext
    \/ KBSearch
    \/ KBChunk
    \/ KBAddDocument

SpecKB == InitKB /\ [][NextKB]_vars

(***************************************************************************)
(* Concurrent requests in the orchestrator: what each request constructs   *)
(* and configures on its way through generate_ai_response_async and the    *)
(* research call (app.py 79-81, research_agent.py 163-174).  The requests  *)
(* run in threads of their own and interleave freely.                      *)
(***************************************************************************)
\* the storage a server handle works on
storage_of(handle) == handle.params.storage

\* app.py 79-81: session_id = "main"; research_agent =
\* create_research_agent(session_id), a new object
SessionCreate(r) ==
    /\ sessions.req[r].pc = "idle"
    /\ sessions' =
         [sessions EXCEPT
            !.req[r] = [pc |-> "created", session_id |-> <<"main">>,
                        agent |-> <<[obj |-> sessions.next_id,
                                     self |-> create_research_agent("main")]>>,
                        handles |-> <<>>],
            !.next_id = @ + 1]
    /\ UNCHANGED <<envVars, reqVars, uploads, now, gateVars, fb_calls, kb_call>>

\* research_agent.py 163-169: one MCPServerStdio process per entry of
\* get_research_mcp_server_params(self.session_id); a SimpleResearchAgent
\* and a failed key validation start none
SessionOpen(r) ==
    /\ sessions.req[r].pc = "created"
    /\ LET self == sessions.req[r].agent[1].self
           cfg  == get_research_mcp_server_params(self.session_id)
       IN  IF self.cls # "MCPResearchAgent" \/ cfg.raised
           THEN sessions' = [sessions EXCEPT !.req[r].pc = "closed"]
           ELSE sessions' =
                  [sessions EXCEPT
                     !.req[r].pc = "open",
                     !.req[r].handles =
                         [i \in 1..Len(cfg.params) |->
                             [id |-> sessions.next_id + i - 1, params |-> cfg.params[i]]],
                     !.next_id = @ + Len(cfg.params)]
    /\ UNCHANGED <<envVars, reqVars, uploads, now, gateVars, fb_calls, kb_call>>

\* research_agent.py 171-172: Runner.run; the agent may store findings
\* through its memory server, which writes them to the server's storage
SessionRun(r) ==
    /\ sessions.req[r].pc = "open"
    /\ \E stores \in BOOLEAN :
         sessions' =
           [sessions EXCEPT
              !.req[r].pc = "ran",
              !.stored = IF stores
                         THEN @ \cup { <<storage_of(sessions.req[r].handles[i]), r>> :
                                         i \in { j \in 1..Len(sessions.req[r].handles) :
                                                   sessions.req[r].handles[j].params.server
                                                     = "mcp-memory-libsql" } }
                         ELSE @]
    /\ UNCHANGED <<envVars, reqVars, uploads, now, gateVars, fb_calls, kb_call>>

\* research_agent.py 164: leaving the AsyncExitStack ends the processes
SessionClose(r) ==
    /\ sessions.req[r].pc = "ran"
    /\ sessions' = [sessions EXCEPT !.req[r].pc = "closed", !.req[r].handles = <<>>]
    /\ UNCHANGED <<envVars, reqVars, uploads, now, gateVars, fb_calls, kb_call>>

InitSessions ==
    /\ AGENTS_SDK_AVAILABLE \in BOOLEAN
    /\ OPENAI_API_KEY \in BOOLEAN
    /\ BRAVE_API_KEY \in BOOLEAN
    /\ pkg \in Packages
    /\ InitRequest
    /\ gate_pc = "off"
    /\ gate_question = <<>>
    /\ gate_result = FALSE
    /\ fb_calls = <<>>
    /\ kb_call = NoKBCall
    /\ sessions = NoSessions

NextSessions ==
    \E r \in Requests :
        \/ SessionCreate(r)
        \/ SessionOpen(r)
        \/ SessionRun(r)
        \/ SessionClose(r)

SpecSessions == InitSessions /\ [][NextSessions]_vars

(***************************************************************************)
(* Properties.                                                             *)
(***************************************************************************)
\* s holds some keyword of the list as a contiguous run of characters
ContainsKeyword(s) ==
    \E n \in 1..Len(fleetworthy_keywords) :
        \E i \in 1..Len(s) : \E j \in i..Len(s) :
            SubSeq(s, i, j) = fleetworthy_keywords[n]

Called(e) == \E i \in DOMAIN trace : trace[i] = e

Count(e) == Cardinality({i \in DOMAIN trace : trace[i] = e})

FirstIndex(e) == CHOOSE i \in DOMAIN trace : trace[i] = e /\ \A j \in 1..(i - 1) : trace[j] # e

\* the orchestrator ran on this request
OrchestratorRan == Called("is_fleetworthy_related")

\* an exception left the try block of the company research call
CompanyRaised ==
    /\ Called("research_company")
    /\ \E i \in DOMAIN trace :
          /\ trace[i] = "raise"
          /\ i > FirstIndex("research_company")
          /\ Called("research_question") => i < FirstIndex("research_question")

\* an exception left the try block of the question research call
QuestionRaised ==
    /\ Called("research_question")
    /\ \E i \in DOMAIN trace :
          trace[i] = "raise" /\ i > FirstIndex("research_question")

HasCompanyContext == truthy(company_website) \/ truthy(company_description)

TheContext == context_of(company_website, company_description, file_info)

FallbackQuestionText ==
    Simple_research_question(pkg, SimpleResearchAgent("main"), question, TheContext)

FallbackCompanyText ==
    Simple_research_company(pkg, SimpleResearchAgent("main"), company_website,
                            company_description)

\* C1: a direct call of the Topic Gate returns true exactly when the
\* lowercased question holds one of the fixed keywords as a substring, also
\* inside a longer word; the empty question is rejected.
C1_GateIffKeywordSubstring ==
    gate_pc = "returned" =>
        /\ gate_result = ContainsKeyword(lower(gate_question))
        /\ gate_question = <<>> => gate_result = FALSE

\* a mixed-case keyword inside a longer word was admitted
C1_Witness ==
    /\ gate_pc = "returned"
    /\ gate_result = TRUE
    /\ gate_question = <<"e", "D", "o", "t", "l">>

\* C2: when the Topic Gate rejects the question the request ends at once with
\* HTTP 200 and exactly the refusal text; no research agent is created and
\* no research call, configuration lookup or Agent Runtime call is made,
\* whatever the company fields and the file are.
C2_RejectedGetsRefusalOnly ==
    (OrchestratorRan /\ ~ContainsKeyword(lower(question))) =>
        /\ pc = "done"
        /\ http.status = 200
        /\ http.message = Refusal
        /\ research_agent = <<>>
        /\ \A e \in {"create_research_agent", "research_company", "research_question",
                     "get_research_mcp_server_params", "MCPServerStdio",
                     "_create_agent", "Runner.run"} : ~Called(e)

\* a rejected question that came with a website, a description and a file
C2_Witness ==
    /\ OrchestratorRan
    /\ ~ContainsKeyword(lower(question))
    /\ truthy(company_website)
    /\ truthy(company_description)
    /\ truthy(file_info)
    /\ http.message = Refusal

\* C3: for an in-domain question company research is never called while
\* both company fields are empty, and a finished request has called it
\* exactly when one of the two fields is non-empty.
C3_CompanyResearchIffContext ==
    (OrchestratorRan /\ ContainsKeyword(lower(question))) =>
        /\ Called("research_company") => HasCompanyContext
        /\ pc = "done" => (Called("research_company") <=> HasCompanyContext)

\* a finished request with a description and no website, researched
C3_Witness ==
    /\ pc = "done"
    /\ OrchestratorRan
    /\ ~truthy(company_website)
    /\ truthy(company_description)
    /\ Called("research_company")

\* C4: for an in-domain question, question research is called at most once
\* while the request runs and exactly once by the time it has finished, with
\* or without company context and whether company research came from the
\* agent or from the fallback.
C4_QuestionResearchExactlyOnce ==
    (OrchestratorRan /\ ContainsKeyword(lower(question))) =>
        /\ Count("research_question") <= 1
        /\ pc = "done" => Count("research_question") = 1

\* a finished request whose company research fell back and whose question
\* research was called once
C4_Witness ==
    /\ pc = "done"
    /\ CompanyRaised
    /\ company_source = "fallback"
    /\ Count("research_question") = 1

\* C5: the answer of a finished in-domain request is question_research,
\* the separator and company_research when company research ran, and
\* question_research alone when it did not, which is the case when no
\* company field is present.
C5_AnswerShape ==
    (pc = "done" /\ OrchestratorRan /\ ContainsKeyword(lower(question))) =>
        /\ Called("research_company") =>
              http.message = question_research \o <<Separator>> \o company_research
        /\ ~Called("research_company") => http.message = question_research
        /\ ~HasCompanyContext => http.message = question_research

\* a finished request with company research whose answer carries the separator
C5_Witness ==
    /\ pc = "done"
    /\ Called("research_company")
    /\ company_source = "agent"
    /\ question_source = "agent"
    /\ company_research # <<>>
    /\ \E i \in DOMAIN http.message : http.message[i] = Separator

\* C6: when only the company research call raises, the answer is the agent's
\* question text, the separator and the company fallback text; when only the
\* question research call raises, it is the question fallback text, the
\* separator and the agent's company text.
C6_FallbackScopedPerCall ==
    (pc = "done" /\ Called("research_company")) =>
        /\ (CompanyRaised /\ ~QuestionRaised) =>
              /\ Called("research_question")
              /\ question_research \in AgentTexts
              /\ http.status = 200
              /\ http.message = question_research \o <<Separator>> \o FallbackCompanyText
        /\ (~CompanyRaised /\ QuestionRaised) =>
              /\ company_research \in AgentTexts
              /\ http.status = 200
              /\ http.message = FallbackQuestionText \o <<Separator>> \o company_research

\* company research raised inside Runner.run and question research returned
\* the agent's text
C6_Witness ==
    /\ pc = "done"
    /\ CompanyRaised
    /\ ~QuestionRaised
    /\ Count("Runner.run") = 2
    /\ question_source = "agent"
    /\ question_research # <<>>

\* C7: without the SDK a finished in-domain request has HTTP 200 and a
\* non-empty answer made of the fallback templates alone (the question
\* template, and with company context the separator and the company
\* template), never the apology, and the Agent Runtime was never entered.
C7_NoSdkAnswersFromTemplates ==
    (~AGENTS_SDK_AVAILABLE /\ pc = "done" /\ OrchestratorRan
       /\ ContainsKeyword(lower(question))) =>
        /\ http.status = 200
        /\ http.message # <<>>
        /\ http.message # Apology
        /\ http.message =
              IF HasCompanyContext
              THEN FallbackQuestionText \o <<Separator>> \o FallbackCompanyText
              ELSE FallbackQuestionText
        /\ ~Called("Runner.run")
        /\ ~Called("get_research_mcp_server_params")

\* without the SDK, a request with a file and company context was answered
C7_Witness ==
    /\ ~AGENTS_SDK_AVAILABLE
    /\ pc = "done"
    /\ http.status = 200
    /\ Called("research_company")
    /\ Called("research_question")
    /\ truthy(file_info)

\* C8: with the SDK present and OPENAI_API_KEY missing, every research call
\* made returns the fallback text of that call without starting a tool
\* server or running the agent, and the finished request has HTTP 200 and an
\* answer that is not the apology.
C8_MissingKeyFallsBackLocally ==
    (AGENTS_SDK_AVAILABLE /\ ~OPENAI_API_KEY) =>
        /\ ~Called("MCPServerStdio")
        /\ ~Called("Runner.run")
        /\ (Called("research_company") /\ pc # "done") =>
              company_research = FallbackCompanyText
        /\ (pc = "done" /\ Called("research_question")) =>
              /\ question_research = FallbackQuestionText
              /\ Called("research_company") => company_research = FallbackCompanyText
              /\ http.status = 200
              /\ http.message # Apology
              /\ http.error = <<>>

\* both research calls of a request met the missing key
C8_Witness ==
    /\ AGENTS_SDK_AVAILABLE
    /\ ~OPENAI_API_KEY
    /\ BRAVE_API_KEY
    /\ pc = "done"
    /\ Count("get_research_mcp_server_params") = 2
    /\ Count("raise") = 2

\* C9: with a website present and both research calls of the MCP agent
\* raising, the finished request has HTTP 200 and its answer is the question
\* fallback, the separator and the company fallback for the request's own
\* arguments: the answer of the SimpleResearchAgent path.
C9_FailingAgentEqualsFallback ==
    (pc = "done" /\ AGENTS_SDK_AVAILABLE /\ truthy(company_website)
       /\ CompanyRaised /\ QuestionRaised) =>
        /\ http.status = 200
        /\ http.message =
              FallbackQuestionText \o <<Separator>> \o FallbackCompanyText

\* both calls raised after the key check passed: in the tool servers and in
\* the agent run
C9_Witness ==
    /\ pc = "done"
    /\ OPENAI_API_KEY
    /\ truthy(company_website)
    /\ CompanyRaised
    /\ QuestionRaised
    /\ Called("MCPServerStdio")
    /\ Called("Runner.run")

\* C10: any two recorded calls of the same fallback method of the same
\* package with identical arguments returned identical texts, whatever the
\* session ids of the two agents and whatever was called before or between.
C10_FallbackDeterministic ==
    \A i, j \in DOMAIN fb_calls :
        (/\ fb_calls[i].method = fb_calls[j].method
         /\ fb_calls[i].pkg = fb_calls[j].pkg
         /\ fb_calls[i].args = fb_calls[j].args)
        => fb_calls[i].result = fb_calls[j].result

\* the same company fallback was called twice, by agents of two sessions
C10_Witness ==
    /\ Len(fb_calls) >= 2
    /\ fb_calls[1].method = "research_company"
    /\ fb_calls[2].method = "research_company"
    /\ fb_calls[1].pkg = fb_calls[2].pkg
    /\ fb_calls[1].args = fb_calls[2].args
    /\ fb_calls[1].session_id # fb_calls[2].session_id

(***************************************************************************)
(* Knowledge augmentation.                                                 *)
(***************************************************************************)
\* the call made was generate_enhanced_response(question, base)
Augmented == kb_call.method = "generate_enhanced_response"

\* the call made was get_relevant_context(query, max_context_length)
ContextAsked == kb_call.method = "get_relevant_context"

\* the Semantic Search Collaborator failed on the call
SearchFailed == kb_call.index.encode_raises \/ kb_call.index.query_raises

\* how often the call reached e
KBCount(e) == Cardinality({i \in DOMAIN kb_call.events : kb_call.events[i] = e})

\* C11: when the embedding or the vector query raises, the augmentation
\* returns exactly the base text and raises nothing, with or without a
\* completion client.
C11_SearchFailureReturnsBase ==
    (Augmented /\ SearchFailed)
    => /\ kb_call.result = kb_call.web_research
       /\ ~kb_call.raised

\* the search failed under a configured client whose completion failed too
C11_Witness ==
    /\ Augmented
    /\ SearchFailed
    /\ openai_client # <<>>
    /\ kb_call.completion.raises
    /\ kb_call.web_research # <<>>
    /\ kb_call.result = kb_call.web_research

\* C12: without a completion client the augmentation returns the base text
\* unchanged and calls no completion; with one it calls the completion
\* service exactly once.
C12_OneCompletionIffConfigured ==
    Augmented
    => /\ openai_client = <<>>
          => (/\ kb_call.result = kb_call.web_research
              /\ KBCount("chat.completions.create") = 0)
       /\ openai_client # <<>>
          => KBCount("chat.completions.create") = 1

\* a configured client answered once, on a search that found nothing
C12_Witness ==
    /\ Augmented
    /\ openai_client # <<>>
    /\ ~SearchFailed
    /\ kb_call.index.hits = <<>>
    /\ KBCount("chat.completions.create") = 1
    /\ kb_call.result = strip(CompletionAnswer)

\* C13: the context string get_relevant_context returns is at most
\* max_context_length characters long.
C13_ContextWithinBudget ==
    ContextAsked => str_len(kb_call.result) <= kb_call.max_context_length

\* a context of two chunks that is within the default budget
C13_Witness ==
    /\ ContextAsked
    /\ kb_call.max_context_length = max_context_length_default
    /\ Len(kb_call.index.hits) = 2
    /\ kb_call.result # <<>>
    /\ str_len(kb_call.result) <= max_context_length_default

\* the ranked chunks that a query for five returns
Ranked ==
    SubSeq(kb_call.index.hits, 1, Min(5, Len(kb_call.index.hits)))

\* the content length of the first k ranked chunks
RECURSIVE ContentSum(_)
ContentSum(k) ==
    IF k = 0 THEN 0 ELSE ContentSum(k - 1) + str_len(Ranked[k].document)

\* the first k ranked chunks, each whole under its source label
RECURSIVE Rendered(_)
Rendered(k) ==
    IF k = 0 THEN <<>>
    ELSE (IF k = 1 THEN <<>> ELSE Rendered(k - 1) \o <<"\n\n">>)
         \o <<"From ">> \o Ranked[k].metadata.source \o <<": ">> \o Ranked[k].document

\* C14: get_relevant_context asks the index for five chunks, and its
\* context is made of the longest prefix of the ranked results whose
\* content lengths add up to at most the budget: whole chunks, in rank
\* order, nothing after the first chunk that does not fit.
C14_LongestWholePrefix ==
    ContextAsked
    => /\ KBCount("collection.query") = 1 => kb_call.n_results = 5
       /\ \E k \in 0..Len(Ranked) :
            /\ ContentSum(k) <= kb_call.max_context_length
            /\ k < Len(Ranked) => ContentSum(k + 1) > kb_call.max_context_length
            /\ kb_call.result = Rendered(k)

\* six chunks were ranked; the second did not fit and the third, smaller,
\* would have
C14_Witness ==
    /\ ContextAsked
    /\ kb_call.max_context_length = max_context_length_default
    /\ Len(kb_call.index.hits) = 6
    /\ kb_call.index.hits[1].document = MiddleChunk
    /\ kb_call.index.hits[2].document = LongChunk
    /\ kb_call.index.hits[3].document = ShortChunk
    /\ kb_call.result = Rendered(1)

(***************************************************************************)
(* Request validation of /api/chat.                                        *)
(***************************************************************************)
\* the request that has just been answered
TheData == request.data

\* the handler sent a response and the request has not been discarded yet
Answered == pc = "done"

HttpPrefix  == <<"h","t","t","p",":","/","/">>
HttpsPrefix == <<"h","t","t","p","s",":","/","/">>

\* the trimmed website is there and starts with neither scheme
MalformedWebsite ==
    LET w == strip(TheData.company_website)
    IN  /\ w # <<>>
        /\ ~startswith(w, HttpPrefix)
        /\ ~startswith(w, HttpsPrefix)

\* the file name has a dot and the characters after its last dot, lowercased,
\* are an allowed extension
ExtensionAllowed(name) ==
    \E i \in 1..Len(name) :
        /\ name[i] = "."
        /\ \A j \in (i + 1)..Len(name) : name[j] # "."
        /\ lower(SubSeq(name, i + 1, Len(name))) \in ALLOWED_EXTENSIONS

\* the request carries a file: data and name are both there
HasFile == TheData.file_data # <<>> /\ TheData.file_name # <<>>

\* C15: a JSON object body whose question is missing, empty or only
\* whitespace is answered 400 "Question is required", whatever its other
\* fields are, and nothing ran before that answer: no URL check, no file
\* processing, no research.
C15_QuestionRequired ==
    (/\ Answered
     /\ request.kind = "object"
     /\ strip(TheData.question) = <<>>)
    => /\ http.status = 400
       /\ http.error = <<"Question is required">>
       /\ trace = <<>>

\* a whitespace-only question arrived with a malformed website and a file
C15_Witness ==
    /\ Answered
    /\ request.kind = "object"
    /\ TheData.question = <<" ">>
    /\ MalformedWebsite
    /\ HasFile
    /\ http.status = 400

\* C16: with a non-empty question, a trimmed company_website that is
\* non-empty and starts with neither http:// nor https:// is answered 400
\* "Invalid website URL format"; an empty or absent website never is.
C16_MalformedWebsiteRejected ==
    (/\ Answered
     /\ request.kind = "object"
     /\ strip(TheData.question) # <<>>)
    => /\ MalformedWebsite
          => (http.status = 400 /\ http.error = <<"Invalid website URL format">>)
       /\ strip(TheData.company_website) = <<>>
          => (http.error # <<"Invalid website URL format">> /\ ~Called("validate_url"))

\* a malformed website was rejected
C16_Witness ==
    /\ Answered
    /\ request.kind = "object"
    /\ strip(TheData.question) # <<>>
    /\ MalformedWebsite
    /\ http.status = 400
    /\ http.error = <<"Invalid website URL format">>

\* C17: a request whose body is not JSON is answered 400 "Request must be
\* JSON" in the step that takes it, which runs no validation and no
\* research and leaves the upload store as it was.
C17_NonJsonRejected ==
    [][(pc = "idle" /\ pc' # "idle" /\ request'.kind = "not_json")
       => /\ pc' = "done"
          /\ http'.status = 400
          /\ http'.error = <<"Request must be JSON">>
          /\ trace' = <<>>
          /\ research_agent' = <<>>
          /\ uploads' = uploads]_vars

\* a complete chat request with a file arrived under a non-JSON content type
C17_Witness ==
    /\ Answered
    /\ request.kind = "not_json"
    /\ HasFile
    /\ strip(TheData.question) # <<>>
    /\ http.status = 400

\* C18: a request that passed the question and URL checks and carries a
\* file is answered 400 when the file's name has no allowed extension (or no
\* dot), and 400 when the decoded file is larger than 5 MB.
C18_BadFileRejected ==
    (/\ Answered
     /\ request.kind = "object"
     /\ strip(TheData.question) # <<>>
     /\ ~MalformedWebsite
     /\ HasFile)
    => /\ ~ExtensionAllowed(TheData.file_name) => http.status = 400
       /\ (/\ TheData.file_data[1].decodes
           /\ TheData.file_data[1].size > MAX_CONTENT_LENGTH) => http.status = 400

\* a file with an extension outside the allow-list was rejected, and so was
\* an oversized one by the handler's own size test
C18_Witness ==
    /\ Answered
    /\ HasFile
    /\ \/ ~ExtensionAllowed(TheData.file_name)
          /\ http.error = <<"File type not allowed">>
       \/ http.error = <<"File too large. Maximum size is 5MB">>

\* C19: a request answered with a validation response (400) never reached
\* the orchestrator: generate_ai_response_sync, the Topic Gate and the
\* research agent were not invoked for it.
C19_ValidationStopsBeforeOrchestrator ==
    (Answered /\ http.status = 400)
    => /\ ~Called("generate_ai_response_sync")
       /\ ~OrchestratorRan
       /\ ~Called("create_research_agent")
       /\ ~Called("research_company")
       /\ ~Called("research_question")
       /\ research_agent = <<>>

\* an in-domain question with a malformed website was stopped by validation
C19_Witness ==
    /\ Answered
    /\ http.status = 400
    /\ is_fleetworthy_related(strip(TheData.question))
    /\ MalformedWebsite
    /\ request.kind = "object"

\* the texts the handler's error responses are made of
ErrorTexts ==
    { "Request must be JSON", "Question is required", "Invalid website URL format",
      "File type not allowed", "File too large. Maximum size is 5MB",
      "Error processing uploaded file", "Internal server error" }

\* C20: a request on which an exception left the handler's checks is answered
\* 500 with the body "Internal server error" and nothing else; the error
\* body of every response is one of the handler's fixed texts.
C20_InternalFailureIsGeneric500 ==
    Answered
    => /\ request.kind = "not_object" => http.status = 500
       /\ http.status = 500
          => (/\ http.error = <<"Internal server error">>
              /\ http.message = <<>>
              /\ http.received_data = <<>>)
       /\ http.status \in {400, 500}
          => \E t \in ErrorTexts : http.error = <<t>>
       /\ http.status = 200 => http.error = <<>>

\* a JSON body that is no object made data.keys() raise
C20_Witness ==
    /\ Answered
    /\ request.kind = "not_object"
    /\ http.status = 500

(***************************************************************************)
(* Scheduling, isolation and storage.                                      *)
(***************************************************************************)
\* the request's coroutine is suspended in the company research call
CompanyInFlight == pc = "await_company"

\* the request's coroutine is suspended in the question research call
QuestionInFlight == pc \in {"await_question_with_company", "await_question"}

\* C21: within a request that has company context, the question research
\* call is not started while the company research call is in flight, and
\* when it is started or has been made the company research call has
\* already ended, by returning the agent's text or by falling back.
C21_CompanyEndsBeforeQuestionStarts ==
    /\ CompanyInFlight => ~Called("research_question")
    /\ (HasCompanyContext /\ (QuestionInFlight \/ Called("research_question")))
       => /\ Called("research_company")
          /\ company_source \in {"agent", "fallback", "simple"}
          /\ Called("research_question")
             => FirstIndex("research_company") < FirstIndex("research_question")

\* the company call fell back after a failure and the question call is
\* about to start
C21_Witness ==
    /\ pc = "await_question_with_company"
    /\ HasCompanyContext
    /\ CompanyRaised
    /\ company_source = "fallback"
    /\ ~Called("research_question")

\* the handles request r holds
HandleIds(r) == { sessions.req[r].handles[i].id : i \in 1..Len(sessions.req[r].handles) }

\* the storage locations that request r's memory server was configured with
MemoryStorage(r) ==
    { storage_of(sessions.req[r].handles[i]) :
        i \in { j \in 1..Len(sessions.req[r].handles) :
                  sessions.req[r].handles[j].params.server = "mcp-memory-libsql" } }

\* C22: any two requests in flight have agent objects of their own and
\* server handles of their own, and neither uses the session identifier or
\* the memory storage location configured for the other.
C22_RequestsShareNothing ==
    \A r1, r2 \in Requests :
        (/\ r1 # r2
         /\ sessions.req[r1].pc \notin {"idle", "closed"}
         /\ sessions.req[r2].pc \notin {"idle", "closed"})
        => /\ sessions.req[r1].agent[1].obj # sessions.req[r2].agent[1].obj
           /\ HandleIds(r1) \cap HandleIds(r2) = {}
           /\ sessions.req[r1].session_id # sessions.req[r2].session_id
           /\ MemoryStorage(r1) \cap MemoryStorage(r2) = {}

\* two requests hold open server handles at once, each its own agent object
\* and its own processes
C22_Witness ==
    /\ sessions.req[1].pc = "open"
    /\ sessions.req[2].pc = "open"
    /\ sessions.req[1].agent[1].obj # sessions.req[2].agent[1].obj
    /\ HandleIds(1) # {}
    /\ HandleIds(1) \cap HandleIds(2) = {}

\* the call made was search_knowledge(query, n_results)
Searched == kb_call.method = "search_knowledge"

\* C23: every result of search_knowledge has a relevance score between 0
\* and 1, whatever distances the index returned; the results are the
\* index's hits in the index's order, and there are at most n_results.
C23_ScoresInUnitInterval ==
    Searched
    => /\ Len(kb_call.result) <= kb_call.n_results
       /\ Len(kb_call.result) <= Len(kb_call.index.hits)
       /\ \A i \in 1..Len(kb_call.result) :
            /\ kb_call.result[i].content = kb_call.index.hits[i].document
            /\ kb_call.result[i].relevance_score >= 0
            /\ kb_call.result[i].relevance_score <= DistanceUnit

\* three of six hits were asked for and returned, with scores 1.0, 0.5 and 0.0
C23_Witness ==
    /\ Searched
    /\ kb_call.n_results = 3
    /\ Len(kb_call.index.hits) = 6
    /\ Len(kb_call.result) = 3
    /\ kb_call.result[1].relevance_score = DistanceUnit
    /\ kb_call.result[2].relevance_score = 5
    /\ kb_call.result[3].relevance_score = 0

\* the call made was chunk_text(text, chunk_size, overlap)
Chunked == kb_call.method = "chunk_text"

\* words a to b of the text that was chunked, counted from 1, written with
\* single spaces
RECURSIVE WordsJoined(_, _)
WordsJoined(a, b) ==
    IF a > b THEN <<>>
    ELSE IF a = b THEN kb_call.words[a]
    ELSE kb_call.words[a] \o <<" ">> \o WordsJoined(a + 1, b)

\* the distance between the starts of two consecutive chunks
Step == kb_call.chunk_size - kb_call.overlap

\* the first and the last word of chunk k, chunks counted from 0
FirstWord(k) == k * Step + 1
LastWord(k) == Min(k * Step + kb_call.chunk_size, Len(kb_call.words))

\* C24: chunk_text with chunk_size > overlap >= 0 returns, for a text of n
\* words, one chunk for each start i*(chunk_size - overlap) below n: chunk
\* i holds the words from that start on, chunk_size of them at most, so that
\* no chunk is empty, every word is in some chunk and two consecutive full
\* chunks share exactly overlap words; a text without words has no chunks.
C24_ChunksCoverWordsWithOverlap ==
    Chunked
    => LET n == Len(kb_call.words)
           chunks == kb_call.result
       IN  /\ n = 0 => chunks = <<>>
           /\ \A k \in 0..(Len(chunks) - 1) :
                /\ FirstWord(k) <= n
                /\ chunks[k + 1] = WordsJoined(FirstWord(k), LastWord(k))
                /\ chunks[k + 1] # <<>>
                /\ LastWord(k) - FirstWord(k) + 1 <= kb_call.chunk_size
                /\ (k + 1 < Len(chunks)
                    /\ LastWord(k) - FirstWord(k) + 1 = kb_call.chunk_size
                    /\ LastWord(k + 1) - FirstWord(k + 1) + 1 = kb_call.chunk_size)
                   => LastWord(k) - FirstWord(k + 1) + 1 = kb_call.overlap
           /\ \A w \in 1..n :
                \E k \in 0..(Len(chunks) - 1) : FirstWord(k) <= w /\ w <= LastWord(k)
           /\ \A k \in 0..n : k * Step < n => k < Len(chunks)

\* six words under double spaces and padding, chunked by 3 with overlap 1:
\* chunks start at words 1, 3 and 5
C24_Witness ==
    /\ Chunked
    /\ Len(kb_call.words) = 6
    /\ kb_call.chunk_size = 3
    /\ kb_call.overlap = 1
    /\ Len(kb_call.text) > 12
    /\ Len(kb_call.result) = 3
    /\ kb_call.result[2] = <<"c", " ", "d", " ", "e">>

(***************************************************************************)
(* Termination and the upload store.                                       *)
(***************************************************************************)
\* a request is being handled: it has arrived and its values are not yet
\* discarded
InFlight == pc # "idle"

\* no SDK and no API key: nothing outside the process is configured
ZeroDependencies == ~AGENTS_SDK_AVAILABLE /\ ~OPENAI_API_KEY /\ ~BRAVE_API_KEY

\* the request passed validation and file processing and its question is
\* in domain
ValidInDomain ==
    /\ Called("generate_ai_response_sync")
    /\ is_fleetworthy_related(question)

\* C25: when every research call returns or raises eventually, every request
\* is answered: a request in flight reaches its response, the response has
\* status 200, 400 or 500, and once sent it is not replaced by another; with
\* no SDK and no API key configured, a request that passed validation with an
\* in-domain question is answered 200 with a non-empty message.
C25_EveryRequestAnsweredOnce ==
    /\ InFlight ~> Answered
    /\ [](Answered => http.status \in {200, 400, 500})
    /\ [](InFlight /\ ~Answered => http = NoResponse)
    /\ [][Answered => (pc' = "idle" /\ http' = NoResponse)]_vars
    /\ []((ZeroDependencies /\ ValidInDomain /\ Answered)
          => (http.status = 200 /\ str_len(http.message) > 0))

\* with nothing configured, a request with a website and a stored file was
\* answered 200 after both research calls
C25_Witness ==
    /\ ZeroDependencies
    /\ ValidInDomain
    /\ Answered
    /\ Count("research_company") = 1
    /\ Count("research_question") = 1
    /\ Called("write")
    /\ http.status = 200
    /\ str_len(http.message) > 0

\* the step of chat() that takes a request
ChatStep == pc = "idle" /\ pc' # "idle"

\* the question, URL, extension and size tests of chat() let the request pass
ChecksPassed ==
    /\ truthy(required_question(TheData))
    /\ validate_url(strip(TheData.company_website))
    /\ HasFile
    /\ allowed_file(TheData.file_name)
    /\ TheData.file_data[1].decodes
    /\ TheData.file_data[1].size <= MAX_CONTENT_LENGTH

\* the file of the request is in the upload store, whole
FilePersisted ==
    \E u \in uploads :
       /\ u[1][3] = TheData.file_name
       /\ u[2] = TheData.file_data[1].body

\* C26: the step that takes a request touches the upload store only after
\* the question, URL, extension and size tests have passed; a request
\* answered 400 leaves the store as it was; the file is written before the
\* Topic Gate runs, so that a request refused as out of domain has its file
\* in the store.
C26_WriteAfterChecksBeforeGate ==
    [][ChatStep
       => /\ (Called("open")' \/ uploads' # uploads) => ChecksPassed'
          /\ http'.status = 400 => uploads' = uploads
          /\ (Called("write")' /\ Called("is_fleetworthy_related")')
             => /\ FirstIndex("write")' < FirstIndex("is_fleetworthy_related")'
                /\ FilePersisted']_vars

\* a request with an out-of-domain question and a file was refused, and the
\* file is in the store
C26_Witness ==
    /\ Answered
    /\ ChecksPassed
    /\ http.status = 200
    /\ http.message = Refusal
    /\ Called("write")
    /\ FilePersisted

\* the paths under which the upload store holds a file
StoredPaths == { u[1] : u \in uploads }

\* the path the request in hand wrote to: os.path.join(UPLOAD_FOLDER,
\* timestamp + "_" + file_name)
WrittenPath == <<UPLOAD_FOLDER, now, TheData.file_name>>

\* C27: a request that writes its upload writes it to a path no earlier
\* request has written to, and every file stored by an earlier request is
\* still there, unchanged, after the write; this includes two requests that
\* upload the same file name within the same clock second.
C27_UploadsNeverOverwritten ==
    [][(ChatStep /\ Called("write")')
       => /\ WrittenPath' \notin StoredPaths
          /\ uploads \subseteq uploads']_vars

\* two requests uploaded the same file name in different seconds: both
\* files are stored, whole, at two paths
C27_Witness ==
    /\ Answered
    /\ Called("write")
    /\ FilePersisted
    /\ Cardinality(StoredPaths) = 2
    /\ \A u \in uploads : u[1][3] = TheData.file_name /\ u[2] = TheData.file_data[1].body

(***************************************************************************)
(* Ingestion.                                                              *)
(***************************************************************************)
\* the call made was add_document(file_path, document_type)
Added == kb_call.method = "add_document"

\* the chunks of the document that was handed to add_document
DocumentChunks ==
    chunk_text(extract_text_from_pdf(kb_call.pdf), chunk_size_default, overlap_default)

\* the entries of a collection that belong to the file
ChunksOfFile(collection) == { c \in collection : c.source = kb_call.basename }

\* C29: add_document is all-or-nothing: when it returns False the collection
\* holds no chunk of the file that it did not hold before the call; when it
\* returns True every chunk i of the document is stored under the id
\* <basename>_chunk_<i>.
C29_AddDocumentAllOrNothing ==
    Added
    => /\ ~kb_call.result
          => ChunksOfFile(kb_call.collection) \subseteq ChunksOfFile(kb_call.before)
       /\ kb_call.result
          => \A i \in 0..(Len(DocumentChunks) - 1) :
                \E c \in kb_call.collection :
                   /\ c.id = chunk_id(kb_call.basename, i)
                   /\ c.document = DocumentChunks[i + 1]

\* a document of three chunks was added to a collection that held another
\* file's chunk: True, and the three chunks are stored under their ids
C29_Witness ==
    /\ Added
    /\ kb_call.result
    /\ Len(DocumentChunks) = 3
    /\ kb_call.before # {}
    /\ Cardinality(ChunksOfFile(kb_call.collection)) = 3
    /\ \A i \in 0..2 :
          \E c \in kb_call.collection :
             c.id = chunk_id(kb_call.basename, i) /\ c.document = DocumentChunks[i + 1]

====
